---- MODULE Spec2Model ----
(***************************************************************************)
(* A model of the WhatsApp -> Telegram forwarder (main.py): the contact    *)
(* resolver get_contact_info, the message processor process_message with   *)
(* its media pipeline download_and_send_media, the bot-command handlers    *)
(* that read the shared state, and the listener loop that is meant to feed *)
(* process_message.                                                        *)
(*                                                                         *)
(* Python strings are sequences of one-element "characters": each element  *)
(* is one code point.  A code point outside ASCII is written by its name   *)
(* ("U+1F4E5" is the inbox glyph) and is still ONE element, as in Python.  *)
(***************************************************************************)
EXTENDS Naturals, Sequences, FiniteSets

(***************************************************************************)
(* Strings.                                                                *)
(***************************************************************************)

Digits == <<"0", "1", "2", "3", "4", "5", "6", "7", "8", "9">>

\* \d of the re module, on the characters the model uses
IsDigit(c) == \E i \in 1..10 : Digits[i] = c

\* str.isspace / \s of the re module, on the characters the model uses
IsSpace(c) == c \in {" ", "\t", "\n", "\r"}

\* the character class [\s-]
IsSep(c) == IsSpace(c) \/ c = "-"

Upper == <<"A", "B", "C", "D", "E", "F", "G", "H", "I", "J", "K", "L", "M",
           "N", "O", "P", "Q", "R", "S", "T", "U", "V", "W", "X", "Y", "Z">>

Lower == <<"a", "b", "c", "d", "e", "f", "g", "h", "i", "j", "k", "l", "m",
           "n", "o", "p", "q", "r", "s", "t", "u", "v", "w", "x", "y", "z">>

\* str.lower() of one character
LowerChar(c) ==
    IF \E i \in 1..26 : Upper[i] = c
    THEN Lower[CHOOSE i \in 1..26 : Upper[i] = c]
    ELSE c

\* str.lower()
ToLower(s) == [i \in 1..Len(s) |-> LowerChar(s[i])]

\* whether sub occurs in s at (1-based) position i
OccursAt(sub, s, i) ==
    /\ i >= 1
    /\ i + Len(sub) - 1 <= Len(s)
    /\ \A k \in 1..Len(sub) : s[i + k - 1] = sub[k]

\* the Python test `sub in s`
Contains(sub, s) == \E i \in 1..(Len(s) + 1) : OccursAt(sub, s, i)

\* s.replace(old, ''), old non-empty: every non-overlapping occurrence,
\* left to right, from position i on
RECURSIVE RemoveFrom(_, _, _)
RemoveFrom(s, old, i) ==
    IF i > Len(s) THEN <<>>
    ELSE IF OccursAt(old, s, i) THEN RemoveFrom(s, old, i + Len(old))
    ELSE <<s[i]>> \o RemoveFrom(s, old, i + 1)

RemoveAll(s, old) == IF old = <<>> THEN s ELSE RemoveFrom(s, old, 1)

\* s.strip()
Strip(s) ==
    LET keep == {i \in 1..Len(s) : ~IsSpace(s[i])}
    IN  IF keep = {} THEN <<>>
        ELSE LET lo == CHOOSE i \in keep : \A j \in keep : i <= j
                 hi == CHOOSE i \in keep : \A j \in keep : i >= j
             IN  SubSeq(s, lo, hi)

\* str(n) for a natural number n
RECURSIVE DecStr(_)
DecStr(n) ==
    IF n < 10 THEN <<Digits[n + 1]>>
    ELSE DecStr(n \div 10) \o <<Digits[(n % 10) + 1]>>

\* the flattening of a sequence of strings: ''.join(parts)
RECURSIVE Join(_)
Join(parts) == IF parts = <<>> THEN <<>> ELSE Head(parts) \o Join(Tail(parts))

\* seq[-n:] of Python, n > 0
LastN(seq, n) ==
    IF Len(seq) <= n THEN seq ELSE SubSeq(seq, Len(seq) - n + 1, Len(seq))

(***************************************************************************)
(* The phone pattern of get_contact_info:                                  *)
(*     \+(\d{1,3}[\s-]?\d{4,14})                                           *)
(* matched as re.search matches it: the leftmost start, and at that start  *)
(* the first success of the backtracking order (the country code greedy,   *)
(* 3 then 2 then 1 digits; the separator taken when present, else skipped; *)
(* the number greedy, up to 14 digits).                                    *)
(***************************************************************************)

CountryMin == 1
CountryMax == 3
NumberMin == 4
NumberMax == 14

\* the number of digits of s from position i on, in one run
RECURSIVE DigitRun(_, _)
DigitRun(s, i) ==
    IF i > Len(s) \/ ~IsDigit(s[i]) THEN 0 ELSE 1 + DigitRun(s, i + 1)

\* the end position of the match that starts at i with a country code of c
\* digits and a separator of width w (0 or 1), or 0 when there is none
TailEnd(s, i, c, w) ==
    LET from == i + 1 + c + w
        run == DigitRun(s, from)
    IN  IF run < NumberMin THEN 0
        ELSE from + (IF run > NumberMax THEN NumberMax ELSE run) - 1

\* the end of the match at i with a country code of c digits (0: none)
WithCountry(s, i, c) ==
    IF DigitRun(s, i + 1) < c THEN 0
    ELSE LET sepAt == i + 1 + c
             withSep == IF sepAt <= Len(s) /\ IsSep(s[sepAt])
                        THEN TailEnd(s, i, c, 1) ELSE 0
         IN  IF withSep # 0 THEN withSep ELSE TailEnd(s, i, c, 0)

\* the end of the match that starts at i (0: no match starts at i)
RECURSIVE MatchFrom(_, _, _)
MatchFrom(s, i, c) ==
    IF c < CountryMin THEN 0
    ELSE LET e == WithCountry(s, i, c)
         IN  IF e # 0 THEN e ELSE MatchFrom(s, i, c - 1)

MatchAt(s, i) ==
    IF i > Len(s) \/ s[i] # "+" THEN 0 ELSE MatchFrom(s, i, CountryMax)

\* re.search(phone_pattern, sender): [found, group0, group1]
PhoneSearch(s) ==
    LET starts == {i \in 1..Len(s) : MatchAt(s, i) # 0}
    IN  IF starts = {} THEN [found |-> FALSE, group0 |-> <<>>, group1 |-> <<>>]
        ELSE LET i == CHOOSE a \in starts : \A b \in starts : a <= b
                 e == MatchAt(s, i)
             IN  [found |-> TRUE,
                  group0 |-> SubSeq(s, i, e),
                  group1 |-> SubSeq(s, i + 1, e)]

(***************************************************************************)
(* Values.                                                                 *)
(***************************************************************************)

\* Python's None, where a field that should hold a string holds none
NoneVal == <<"None">>

\* the code points of the glyphs of the templates
GlyphSent == "U+1F4E4"
GlyphReceived == "U+1F4E5"
GlyphContact == "U+1F464"
GlyphChat == "U+1F4AC"
GlyphMessage == "U+1F4DD"
GlyphTime == "U+1F552"

UnknownCaller == <<"U", "n", "k", "n", "o", "w", "n", " ", "C", "a", "l", "l", "e", "r">>
AlParen == <<"A", "l", " ", "(", "+", "1", " ", "5", "5", "5", "0", "1", "0", "0", ")">>
BarePhone == <<"+", "1", "5", "5", "5", "0", "1", "0", "0">>
Bob == <<"B", "o", "b">>

\* the raw sender strings of the observations
Senders == {UnknownCaller, AlParen, BarePhone, Bob}

\* the texts of the observations: none, and one word
Texts == {<<>>, <<"h", "i">>}

\* the observation ids (the data-id of the message element)
MsgIds == {<<"m", "1">>}

MediaUrl == <<"h", "t", "t", "p", ":", "/", "/", "w", "/", "a", ".", "j", "p", "g">>

ChatTitle == <<"A", "l">>

TimeStamp == <<"1", "2", ":", "0", "0">>

\* the transient file names temp_media_<seconds><ext> two calls can get
FileNames == {<<"t", "e", "m", "p", "_", "m", "e", "d", "i", "a", "_", "1", ".", "j", "p", "g">>,
              <<"t", "e", "m", "p", "_", "m", "e", "d", "i", "a", "_", "2", ".", "j", "p", "g">>}

\* the calls of process_message the event loop can hold at a time
Tasks == {"t1", "t2"}

\* the one task that consumes the observations and calls process_message
\* for each of them, one after the other
Consumer == "t1"

\* process_message is called at most MaxCalls times
MaxCalls == 3

\* the observation records: message_data after the .get defaults.  A record
\* declares media exactly when it carries a locator.
Observations ==
    {o \in [id : MsgIds, sender : Senders \cup {NoneVal}, text : Texts,
            chat : {ChatTitle}, is_outgoing : BOOLEAN, has_media : BOOLEAN,
            media_url : {NoneVal, MediaUrl}, timestamp : {TimeStamp}] :
        o.has_media = (o.media_url # NoneVal)}

(***************************************************************************)
(* State.                                                                  *)
(***************************************************************************)

VARIABLES
    contacts,         \* self.contacts: the dict, as its items in insertion order
    message_history,  \* self.message_history: contact id -> list of records
    chat_groups,      \* self.chat_groups: contact id -> list of formatted texts
    active_chats,     \* self.active_chats
    files,            \* the transient files that exist in the working directory
    pc,               \* where each call of process_message stands
    loc,              \* the local variables of each call
    calls,            \* the number of calls of process_message so far
    send_message_calls, \* the number of calls of telegram_client.send_message
    max_message_length, \* self.max_message_length
    last_cmd,         \* the last bot command handled, and what its handler did
    listener_pc,      \* where listen_for_messages stands
    processedMessages, \* window.processedMessages of the injected script
    emitted           \* the records the injected script has built and handed over

vars == <<contacts, message_history, chat_groups, active_chats, files, pc, loc,
          calls, send_message_calls, max_message_length, last_cmd, listener_pc, processedMessages,
          emitted>>

\* what process_message never writes
listener == <<listener_pc, processedMessages, emitted>>

\* what the command handlers never write
config == <<max_message_length>>

NoContact == [display_name |-> <<>>, phone_number |-> <<>>, id |-> <<>>]

NoObservation ==
    [id |-> <<>>, sender |-> <<>>, text |-> <<>>, chat |-> <<>>,
     is_outgoing |-> FALSE, has_media |-> FALSE, media_url |-> NoneVal,
     timestamp |-> <<>>]

\* the frame of a call that has not started
NoLocals ==
    [obs |-> NoObservation, contact_info |-> NoContact, temp_filename |-> <<>>,
     media |-> "none", formatted_msg |-> <<>>, send |-> "none"]

(***************************************************************************)
(* get_contact_info.                                                       *)
(***************************************************************************)

\* a lookup that misses every sender
KeyIndexNever(cs, sender) == 0

\* the position of sender among the keys of the dict cs (0: not a key)
KeyIndex(cs, sender) ==
    IF \E i \in 1..Len(cs) : cs[i].sender = sender
    THEN CHOOSE i \in 1..Len(cs) : cs[i].sender = sender
    ELSE 0

\* the placeholder numbered from 0: unknown_<len(contacts)>
PlaceholderFromZero(cs) ==
    <<"u", "n", "k", "n", "o", "w", "n", "_">> \o DecStr(Len(cs))

\* a placeholder that does not count: always unknown_1
PlaceholderFixed(cs) == <<"u", "n", "k", "n", "o", "w", "n", "_", "1">>

\* the placeholder of a sender with no phone number: unknown_<len(contacts)+1>
Placeholder(cs) ==
    <<"u", "n", "k", "n", "o", "w", "n", "_">> \o DecStr(Len(cs) + 1)

\* display_name on a match m: the sender without "(<match>)", stripped, or
\* the sender itself when nothing is left
MatchedName(sender, m) ==
    LET stripped == Strip(RemoveAll(sender, <<"(">> \o m.group0 \o <<")">>))
    IN  IF stripped = <<>> THEN sender ELSE stripped

\* phone_number on a match m: group 1 without spaces and hyphens
MatchedPhone(m) == RemoveAll(RemoveAll(m.group1, <<" ">>), <<"-">>)

\* the Contact built from the result m of the search
ContactFrom(cs, sender, m) ==
    LET display_name == IF m.found THEN MatchedName(sender, m) ELSE sender
        phone_number == IF m.found THEN MatchedPhone(m) ELSE Placeholder(cs)
    IN  [display_name |-> display_name, phone_number |-> phone_number,
         id |-> phone_number]

\* the Contact built on a cache miss
NewContact(cs, sender) == ContactFrom(cs, sender, PhoneSearch(sender))

\* get_contact_info without the lookup of lines 406-407: every call mints
GetContactInfoNoCache(cs, sender) ==
    [contacts |-> Append(cs, [sender |-> sender, info |-> NewContact(cs, sender)]),
     info |-> NewContact(cs, sender)]

\* get_contact_info(sender) on the dict cs: the dict after it and the Contact
\* it returns
GetContactInfo(cs, sender) ==
    LET k == KeyIndex(cs, sender)
    IN  IF k # 0 THEN [contacts |-> cs, info |-> cs[k].info]
        ELSE LET c == NewContact(cs, sender)
             IN  [contacts |-> Append(cs, [sender |-> sender, info |-> c]),
                  info |-> c]

(***************************************************************************)
(* process_message and download_and_send_media.                            *)
(*                                                                         *)
(* A call is suspended only at its awaits on the network: the fetch of the *)
(* media, send_file and send_message.  What runs between two of them is    *)
(* one step.  (get_contact_info is awaited too, but never suspends.)       *)
(***************************************************************************)

\* the truth value Python gives a string or None
Truthy(v) == v # NoneVal /\ v # <<>>

\* direction
Direction(is_outgoing) ==
    IF is_outgoing THEN <<GlyphSent, " ", "S", "e", "n", "t">>
    ELSE <<GlyphReceived, " ", "R", "e", "c", "e", "i", "v", "e", "d">>

\* the second line of both templates
ContactLine(info) ==
    <<GlyphContact, " ", "C", "o", "n", "t", "a", "c", "t", ":", " ">>
        \o info.display_name \o <<" ", "(">> \o info.phone_number \o <<")", "\n">>

ChatLine(chat) ==
    <<GlyphChat, " ", "C", "h", "a", "t", ":", " ">> \o chat \o <<"\n">>

TimeLine(timestamp) ==
    <<GlyphTime, " ", "T", "i", "m", "e", ":", " ">> \o timestamp

\* a formatted_msg without its last line, the time
FormatMessageNoTime(obs, info) ==
    Direction(obs.is_outgoing)
        \o <<" ", "W", "h", "a", "t", "s", "A", "p", "p", " ", "M", "e", "s", "s", "a", "g", "e", "\n">>
        \o ContactLine(info)
        \o ChatLine(obs.chat)
        \o <<GlyphMessage, " ", "M", "e", "s", "s", "a", "g", "e", ":", " ">> \o obs.text

\* formatted_msg
FormatMessage(obs, info) ==
    Direction(obs.is_outgoing)
        \o <<" ", "W", "h", "a", "t", "s", "A", "p", "p", " ", "M", "e", "s", "s", "a", "g", "e", "\n">>
        \o ContactLine(info)
        \o ChatLine(obs.chat)
        \o <<GlyphMessage, " ", "M", "e", "s", "s", "a", "g", "e", ":", " ">> \o obs.text \o <<"\n">>
        \o TimeLine(obs.timestamp)

\* the record appended to the history
MessageRecord(obs) ==
    [id |-> obs.id, text |-> obs.text,
     direction |-> IF obs.is_outgoing THEN "outgoing" ELSE "incoming",
     timestamp |-> obs.timestamp, chat |-> obs.chat]

\* d with the list under key k replaced by [v]: the list is created anew on
\* every message
DictOverwrite(d, k, v) ==
    [x \in (DOMAIN d) \cup {k} |-> IF x = k THEN <<v>> ELSE d[x]]

\* d with v appended to the list under key k unless the list holds it already
DictAppendOnce(d, k, v) ==
    IF k \in DOMAIN d
    THEN IF \E i \in 1..Len(d[k]) : d[k][i] = v THEN d
         ELSE [d EXCEPT ![k] = Append(@, v)]
    ELSE [x \in (DOMAIN d) \cup {k} |-> IF x = k THEN <<v>> ELSE d[x]]

\* d with v appended to the list under key k, the list created when absent
DictAppend(d, k, v) ==
    IF k \in DOMAIN d THEN [d EXCEPT ![k] = Append(@, v)]
    ELSE [x \in (DOMAIN d) \cup {k} |-> IF x = k THEN <<v>> ELSE d[x]]

\* active_chats with the id appended without the membership test
UpdateActiveAlways(active, id) == Append(active, id)

\* active_chats left as it is
UpdateActiveNever(active, id) == active

\* active_chats after the update for contact id
UpdateActive(active, id) ==
    IF \E i \in 1..Len(active) : active[i] = id THEN active ELSE Append(active, id)

\* a text part without the test of `if text:`: an empty text is recorded and
\* sent as well
TextPartUnguarded(t, l) ==
    LET id == l.contact_info.id
        msg == FormatMessage(l.obs, l.contact_info)
    IN  /\ message_history' = DictAppend(message_history, id, MessageRecord(l.obs))
        /\ chat_groups' = DictAppend(chat_groups, id, msg)
        /\ active_chats' = UpdateActive(active_chats, id)
        /\ send_message_calls' = send_message_calls + 1
        /\ pc' = [pc EXCEPT ![t] = "send_message"]
        /\ loc' = [loc EXCEPT ![t] = [l EXCEPT !.formatted_msg = msg]]

\* the text part of process_message, run by call t with the locals l: from
\* `if text:` to the await on send_message
TextPart(t, l) ==
    IF Truthy(l.obs.text)
    THEN LET id == l.contact_info.id
             msg == FormatMessage(l.obs, l.contact_info)
         IN  /\ message_history' = DictAppend(message_history, id, MessageRecord(l.obs))
             /\ chat_groups' = DictAppend(chat_groups, id, msg)
             /\ active_chats' = UpdateActive(active_chats, id)
             /\ send_message_calls' = send_message_calls + 1
             /\ pc' = [pc EXCEPT ![t] = "send_message"]
             /\ loc' = [loc EXCEPT ![t] = [l EXCEPT !.formatted_msg = msg]]
    ELSE /\ pc' = [pc EXCEPT ![t] = "done"]
         /\ loc' = [loc EXCEPT ![t] = l]
         /\ UNCHANGED <<message_history, chat_groups, active_chats, send_message_calls>>

\* a media pipeline whose end also ends process_message: the text is skipped
MediaDoneSkipsText(t, l) ==
    /\ pc' = [pc EXCEPT ![t] = "done"]
    /\ loc' = [loc EXCEPT ![t] = l]
    /\ UNCHANGED <<message_history, chat_groups, active_chats, send_message_calls>>

\* what follows the media pipeline, however it ended: both try blocks catch
\* Exception, and process_message goes on with the text
MediaDone(t, l) == TextPart(t, l)

\* process_message(obs) is called and runs to its first suspension
Start(t, obs) ==
    /\ pc[t] = "idle"
    /\ calls < MaxCalls
    /\ calls' = calls + 1
    /\ UNCHANGED <<config, last_cmd, listener>>
    /\ IF obs.sender = NoneVal
       THEN \* re.search(pattern, None) raises TypeError, which nothing catches
            /\ pc' = [pc EXCEPT ![t] = "raised"]
            /\ loc' = [loc EXCEPT ![t] = [NoLocals EXCEPT !.obs = obs]]
            /\ UNCHANGED <<contacts, message_history, chat_groups, active_chats,
                           files, send_message_calls>>
       ELSE LET r == GetContactInfo(contacts, obs.sender)
                l == [NoLocals EXCEPT !.obs = obs, !.contact_info = r.info]
            IN  /\ contacts' = r.contacts
                /\ UNCHANGED files
                /\ IF obs.has_media /\ Truthy(obs.media_url)
                   THEN \E f \in FileNames :
                            /\ pc' = [pc EXCEPT ![t] = "fetch"]
                            /\ loc' = [loc EXCEPT ![t] = [l EXCEPT !.temp_filename = f]]
                            /\ UNCHANGED <<message_history, chat_groups,
                                           active_chats, send_message_calls>>
                   ELSE TextPart(t, l)

\* session.get(media_url) returns 200 and the body is written
FetchOk(t) ==
    /\ pc[t] = "fetch"
    /\ files' = files \cup {loc[t].temp_filename}
    /\ pc' = [pc EXCEPT ![t] = "send_file"]
    /\ loc' = [loc EXCEPT ![t].media = "fetched"]
    /\ UNCHANGED <<contacts, message_history, chat_groups, active_chats, calls, send_message_calls, config, last_cmd, listener>>

\* the fetch fails: no connection ("error"), a status other than 200
\* ("non200"), or the body breaks off after the file was opened ("partial")
FetchFails(t, how) ==
    /\ pc[t] = "fetch"
    /\ files' = IF how = "partial" THEN files \cup {loc[t].temp_filename} ELSE files
    /\ MediaDone(t, [loc[t] EXCEPT !.media = how])
    /\ UNCHANGED <<contacts, calls, config, last_cmd, listener>>

\* send_file returns, and os.remove deletes the file
SendFileOk(t) ==
    /\ pc[t] = "send_file"
    /\ files' = files \ {loc[t].temp_filename}
    /\ MediaDone(t, [loc[t] EXCEPT !.media = "sent"])
    /\ UNCHANGED <<contacts, calls, config, last_cmd, listener>>

\* send_file raises: the except of line 399 logs it, os.remove is skipped
SendFileFails(t) ==
    /\ pc[t] = "send_file"
    /\ UNCHANGED files
    /\ MediaDone(t, [loc[t] EXCEPT !.media = "send_failed"])
    /\ UNCHANGED <<contacts, calls, config, last_cmd, listener>>

\* a send_message whose failure takes the record of the message back out of
\* the history
SendMessageRollsBack(t, ok) ==
    /\ pc[t] = "send_message"
    /\ pc' = [pc EXCEPT ![t] = "done"]
    /\ loc' = [loc EXCEPT ![t].send = IF ok THEN "ok" ELSE "failed"]
    /\ message_history' =
           IF ok THEN message_history
           ELSE [message_history EXCEPT ![loc[t].contact_info.id] =
                    SubSeq(@, 1, Len(@) - 1)]
    /\ UNCHANGED <<contacts, chat_groups, active_chats, files, calls, send_message_calls, config, last_cmd, listener>>

\* send_message returns or raises; a failure is logged
SendMessage(t, ok) ==
    /\ pc[t] = "send_message"
    /\ pc' = [pc EXCEPT ![t] = "done"]
    /\ loc' = [loc EXCEPT ![t].send = IF ok THEN "ok" ELSE "failed"]
    /\ UNCHANGED <<contacts, message_history, chat_groups, active_chats, files, calls, send_message_calls, config, last_cmd, listener>>

\* the caller gets the result (or the exception) of the call
Return(t) ==
    /\ pc[t] \in {"done", "raised"}
    /\ pc' = [pc EXCEPT ![t] = "idle"]
    /\ loc' = [loc EXCEPT ![t] = NoLocals]
    /\ UNCHANGED <<contacts, message_history, chat_groups, active_chats, files, calls, send_message_calls, config, last_cmd, listener>>


(***************************************************************************)
(* The bot-command handlers.  A handler computes its reply from the shared *)
(* state with no suspension, then responds; last_cmd keeps what it did:    *)
(* the segments it sent, or that it raised.                                *)
(***************************************************************************)

\* the messages /history and /chats show
ShownCount == 10

DefaultMaxLength == 4096

\* a short configured MAX_MESSAGE_LENGTH, which makes /history split
ShortMaxLength == 16

\* the values MAX_MESSAGE_LENGTH is configured with
MaxLengths == {DefaultMaxLength, ShortMaxLength}

\* the arguments of /history
Queries == {<<"a", "l">>, <<"5", "5", "5">>, <<"B", "o", "b">>}

NoCommand == [cmd |-> "none", arg |-> <<>>, status |-> "none", replies |-> <<>>]

\* one line of the /chats list: f"{i}. {display_name} ({phone_number})\n"
ListLine(i, info) ==
    DecStr(i) \o <<".", " ">> \o info.display_name
        \o <<" ", "(">> \o info.phone_number \o <<")", "\n">>

\* self.contacts.get(contact_id, {'display_name': contact_id}): the dict is
\* keyed by the raw sender string, and the default has no phone_number
ChatsLookup(cs, contact_id) ==
    LET k == KeyIndex(cs, contact_id)
    IN  IF k # 0 THEN [found |-> TRUE, info |-> cs[k].info]
        ELSE [found |-> FALSE, info |-> NoContact]

\* chats_handler: what it replies, or that it raised (the KeyError of
\* contact_info['phone_number'] on the default)
ChatsHandler(cs, active) ==
    IF active = <<>>
    THEN [status |-> "replied",
          replies |-> << <<"N", "o", " ", "a", "c", "t", "i", "v", "e", " ", "c", "h", "a", "t", "s", " ", "y", "e", "t", ".">> >>]
    ELSE LET shown == LastN(active, ShownCount)
         IN  IF \E i \in 1..Len(shown) : ~ChatsLookup(cs, shown[i]).found
             THEN [status |-> "raised", replies |-> <<>>]
             ELSE [status |-> "replied",
                   replies |-> << <<"R", "e", "c", "e", "n", "t", " ", "C", "h", "a", "t", "s", ":", "\n">>
                       \o Join([i \in 1..Len(shown) |->
                                   ListLine(i, ChatsLookup(cs, shown[i]).info)]) >>]

\* the loop of history_handler that finds the contact: the KEY of the first
\* item whose display name or phone number matches (0: none matches)
HistoryTarget(cs, contact_name) ==
    LET hits == {i \in 1..Len(cs) :
                    \/ Contains(ToLower(contact_name), ToLower(cs[i].info.display_name))
                    \/ Contains(contact_name, cs[i].info.phone_number)}
    IN  IF hits = {} THEN 0 ELSE CHOOSE i \in hits : \A j \in hits : i <= j

\* one message of the history text
HistoryLine(msg) ==
    <<IF msg.direction = "outgoing" THEN GlyphSent ELSE GlyphReceived, " ">>
        \o msg.text \o <<" ", "(">> \o msg.timestamp \o <<")", "\n", "\n">>

HistoryText(display_name, messages) ==
    <<"L", "a", "s", "t", " ", "1", "0", " ", "m", "e", "s", "s", "a", "g", "e", "s", " ", "w", "i", "t", "h", " ">>
        \o display_name \o <<":", "\n", "\n">>
        \o Join([i \in 1..Len(messages) |-> HistoryLine(messages[i])])

\* [text[i:i+m] for i in range(0, len(text), m)], m > 0
RECURSIVE ChunksOf(_, _)
ChunksOf(text, m) ==
    IF text = <<>> THEN <<>>
    ELSE IF Len(text) <= m THEN <<text>>
    ELSE <<SubSeq(text, 1, m)>> \o ChunksOf(SubSeq(text, m + 1, Len(text)), m)

\* the split that keeps only the whole chunks of m characters
SegmentsWholeOnly(text, m) ==
    [i \in 1..(Len(text) \div m) |-> SubSeq(text, (i - 1) * m + 1, i * m)]

\* the segments history_handler sends for a text
Segments(text, m) == IF Len(text) > m THEN ChunksOf(text, m) ELSE <<text>>

NoHistoryReply(contact_name) ==
    <<"N", "o", " ", "m", "e", "s", "s", "a", "g", "e", " ", "h", "i", "s", "t", "o", "r", "y", " ", "f", "o", "u", "n", "d", " ", "f", "o", "r", ":", " ">>
        \o contact_name

\* history_handler: target_contact_id is a key of self.contacts (a raw sender
\* string) and is looked up in self.message_history, which is keyed by
\* Contact id
HistoryHandler(cs, history, m, contact_name) ==
    LET k == HistoryTarget(cs, contact_name)
        target_contact_id == IF k = 0 THEN NoneVal ELSE cs[k].sender
    IN  IF ~Truthy(target_contact_id) \/ target_contact_id \notin DOMAIN history
        THEN [status |-> "replied", replies |-> <<NoHistoryReply(contact_name)>>]
        ELSE LET history_text ==
                     HistoryText(cs[k].info.display_name,
                                 LastN(history[target_contact_id], ShownCount))
             IN  IF Len(history_text) > m /\ m = 0
                 THEN \* range() with a step of 0 raises ValueError
                      [status |-> "raised", replies |-> <<>>]
                 ELSE [status |-> "replied", replies |-> Segments(history_text, m)]

\* the bot runtime dispatches /chats
ChatsCmd ==
    /\ LET r == ChatsHandler(contacts, active_chats)
       IN  last_cmd' = [cmd |-> "chats", arg |-> <<>>,
                        status |-> r.status, replies |-> r.replies]
    /\ UNCHANGED <<contacts, message_history, chat_groups, active_chats, files,
                   pc, loc, calls, send_message_calls, config, listener>>

\* the bot runtime dispatches /history <contact_name>
HistoryCmd(contact_name) ==
    /\ LET r == HistoryHandler(contacts, message_history,
                               max_message_length, contact_name)
       IN  last_cmd' = [cmd |-> "history", arg |-> contact_name,
                        status |-> r.status, replies |-> r.replies]
    /\ UNCHANGED <<contacts, message_history, chat_groups, active_chats, files,
                   pc, loc, calls, send_message_calls, config, listener>>

\* the reply of start_handler
WelcomeText ==
    <<"W", "e", "l", "c", "o", "m", "e", " ", "t", "o", " ", "W", "h", "a", "t", "s", "A", "p", "p", "-", "T", "e", "l", "e", "g", "r", "a", "m", " ", "F", "o", "r", "w", "a", "r", "d", "e", "r", "!", "\n">>
        \o <<"U", "s", "e", " ", "/", "l", "o", "g", "i", "n", " ", "t", "o", " ", "g", "e", "t", " ", "a", " ", "Q", "R", " ", "c", "o", "d", "e", " ", "t", "o", " ", "l", "o", "g", " ", "i", "n", "t", "o", " ", "W", "h", "a", "t", "s", "A", "p", "p", " ", "W", "e", "b", ".">>

\* the reply of help_handler
HelpText ==
    <<"W", "h", "a", "t", "s", "A", "p", "p", "-", "T", "e", "l", "e", "g", "r", "a", "m", " ", "F", "o", "r", "w", "a", "r", "d", "e", "r", " ", "C", "o", "m", "m", "a", "n", "d", "s", ":", "\n">>
        \o <<"/", "s", "t", "a", "r", "t", " ", "-", " ", "S", "t", "a", "r", "t", " ", "t", "h", "e", " ", "b", "o", "t", "\n">>
        \o <<"/", "l", "o", "g", "i", "n", " ", "-", " ", "G", "e", "t", " ", "Q", "R", " ", "c", "o", "d", "e", " ", "t", "o", " ", "l", "o", "g", " ", "i", "n", "t", "o", " ", "W", "h", "a", "t", "s", "A", "p", "p", " ", "W", "e", "b", "\n">>
        \o <<"/", "h", "e", "l", "p", " ", "-", " ", "S", "h", "o", "w", " ", "t", "h", "i", "s", " ", "h", "e", "l", "p", " ", "m", "e", "s", "s", "a", "g", "e", "\n">>
        \o <<"/", "c", "h", "a", "t", "s", " ", "-", " ", "L", "i", "s", "t", " ", "r", "e", "c", "e", "n", "t", " ", "c", "h", "a", "t", "s", "\n">>
        \o <<"/", "s", "e", "a", "r", "c", "h", " ", "[", "n", "a", "m", "e", "]", " ", "-", " ", "S", "e", "a", "r", "c", "h", " ", "m", "e", "s", "s", "a", "g", "e", "s", " ", "f", "r", "o", "m", " ", "a", " ", "s", "p", "e", "c", "i", "f", "i", "c", " ", "c", "o", "n", "t", "a", "c", "t", "\n">>
        \o <<"/", "h", "i", "s", "t", "o", "r", "y", " ", "[", "c", "o", "n", "t", "a", "c", "t", "]", " ", "-", " ", "G", "e", "t", " ", "m", "e", "s", "s", "a", "g", "e", " ", "h", "i", "s", "t", "o", "r", "y", " ", "w", "i", "t", "h", " ", "a", " ", "c", "o", "n", "t", "a", "c", "t", "\n">>
        \o <<"/", "c", "o", "n", "t", "a", "c", "t", "s", " ", "-", " ", "L", "i", "s", "t", " ", "a", "l", "l", " ", "c", "o", "n", "t", "a", "c", "t", "s", "\n">>
        \o <<"/", "s", "t", "a", "t", "s", " ", "-", " ", "G", "e", "t", " ", "s", "t", "a", "t", "i", "s", "t", "i", "c", "s">>

\* contacts_handler: the numbered list of all contacts, in the order of the dict
ContactsHandler(cs) ==
    IF cs = <<>>
    THEN [status |-> "replied", replies |-> << <<"N", "o", " ", "c", "o", "n", "t", "a", "c", "t", "s", " ", "y", "e", "t", ".">> >>]
    ELSE [status |-> "replied",
          replies |-> << <<"A", "l", "l", " ", "C", "o", "n", "t", "a", "c", "t", "s", ":", "\n">>
              \o Join([i \in 1..Len(cs) |-> ListLine(i, cs[i].info)]) >>]

\* whether search_handler takes the Contact info for the lowered name
SearchHit(name, info) ==
    Contains(name, ToLower(info.display_name)) \/ Contains(name, info.phone_number)

\* matching_contacts: the matching items of the dict, in its order
RECURSIVE MatchingContacts(_, _)
MatchingContacts(cs, name) ==
    IF cs = <<>> THEN <<>>
    ELSE (IF SearchHit(name, Head(cs).info) THEN <<Head(cs).info>> ELSE <<>>)
             \o MatchingContacts(Tail(cs), name)

\* the reply of search_handler for the list it found
SearchResult(found, name) ==
    IF found # <<>>
    THEN <<"F", "o", "u", "n", "d", " ">> \o DecStr(Len(found))
             \o <<" ", "c", "o", "n", "t", "a", "c", "t", "(", "s", ")", " ", "m", "a", "t", "c", "h", "i", "n", "g", " ", "'">> \o name \o <<"'", ":", "\n">>
             \o Join([i \in 1..Len(found) |-> ListLine(i, found[i])])
    ELSE <<"N", "o", " ", "c", "o", "n", "t", "a", "c", "t", "s", " ", "f", "o", "u", "n", "d", " ", "m", "a", "t", "c", "h", "i", "n", "g", " ", "'">> \o name \o <<"'">>

\* search_handler: the argument is lowered before it is compared
SearchHandler(cs, arg) ==
    [status |-> "replied",
     replies |-> << SearchResult(MatchingContacts(cs, ToLower(arg)), ToLower(arg)) >>]

\* the number of records of a history, over all its contact ids
RECURSIVE RecordCount(_)
RecordCount(history) ==
    IF DOMAIN history = {} THEN 0
    ELSE LET id == CHOOSE x \in DOMAIN history : TRUE
         IN  Len(history[id])
                 + RecordCount([x \in (DOMAIN history) \ {id} |-> history[x]])

\* stats_handler; connected: whether self.page is set
StatsHandler(active, cs, history, connected) ==
    [status |-> "replied",
     replies |-> << <<"U+1F4CA", " ", "W", "h", "a", "t", "s", "A", "p", "p", "-", "T", "e", "l", "e", "g", "r", "a", "m", " ", "F", "o", "r", "w", "a", "r", "d", "e", "r", " ", "S", "t", "a", "t", "s", ":", "\n">>
         \o <<"A", "c", "t", "i", "v", "e", " ", "C", "h", "a", "t", "s", ":", " ">> \o DecStr(Len(active)) \o <<"\n">>
         \o <<"T", "o", "t", "a", "l", " ", "C", "o", "n", "t", "a", "c", "t", "s", ":", " ">> \o DecStr(Len(cs)) \o <<"\n">>
         \o <<"M", "e", "s", "s", "a", "g", "e", "s", " ", "P", "r", "o", "c", "e", "s", "s", "e", "d", ":", " ">> \o DecStr(RecordCount(history)) \o <<"\n">>
         \o <<"S", "t", "a", "t", "u", "s", ":", " ">>
         \o (IF connected THEN <<"U+2705", " ", "A", "c", "t", "i", "v", "e">>
             ELSE <<"U+274C", " ", "N", "o", "t", " ", "C", "o", "n", "n", "e", "c", "t", "e", "d">>) >>]

\* the bot runtime dispatches /start
StartCmd ==
    /\ last_cmd' = [cmd |-> "start", arg |-> <<>>,
                    status |-> "replied", replies |-> <<WelcomeText>>]
    /\ UNCHANGED <<contacts, message_history, chat_groups, active_chats, files,
                   pc, loc, calls, send_message_calls, config, listener>>

\* the bot runtime dispatches /help
HelpCmd ==
    /\ last_cmd' = [cmd |-> "help", arg |-> <<>>,
                    status |-> "replied", replies |-> <<HelpText>>]
    /\ UNCHANGED <<contacts, message_history, chat_groups, active_chats, files,
                   pc, loc, calls, send_message_calls, config, listener>>

\* a /contacts that forgets the contacts once it has listed them
ContactsCmdForgets ==
    /\ LET r == ContactsHandler(contacts)
       IN  last_cmd' = [cmd |-> "contacts", arg |-> <<>>,
                        status |-> r.status, replies |-> r.replies]
    /\ contacts' = <<>>
    /\ UNCHANGED <<message_history, chat_groups, active_chats, files,
                   pc, loc, calls, send_message_calls, config, listener>>

\* the bot runtime dispatches /contacts
ContactsCmd ==
    /\ LET r == ContactsHandler(contacts)
       IN  last_cmd' = [cmd |-> "contacts", arg |-> <<>>,
                        status |-> r.status, replies |-> r.replies]
    /\ UNCHANGED <<contacts, message_history, chat_groups, active_chats, files,
                   pc, loc, calls, send_message_calls, config, listener>>

\* the bot runtime dispatches /search <arg>
SearchCmd(arg) ==
    /\ LET r == SearchHandler(contacts, arg)
       IN  last_cmd' = [cmd |-> "search", arg |-> arg,
                        status |-> r.status, replies |-> r.replies]
    /\ UNCHANGED <<contacts, message_history, chat_groups, active_chats, files,
                   pc, loc, calls, send_message_calls, config, listener>>

\* the bot runtime dispatches /stats
StatsCmd(connected) ==
    /\ LET r == StatsHandler(active_chats, contacts, message_history, connected)
       IN  last_cmd' = [cmd |-> "stats", arg |-> <<>>,
                        status |-> r.status, replies |-> r.replies]
    /\ UNCHANGED <<contacts, message_history, chat_groups, active_chats, files,
                   pc, loc, calls, send_message_calls, config, listener>>

(***************************************************************************)
(* listen_for_messages: the script injected into the page, and the loop    *)
(* that follows it.  The script hands each new message to                  *)
(* window.pywebview.api.on_new_message; nothing in main.py exposes such a  *)
(* function to the page or calls process_message, so the record goes       *)
(* nowhere.                                                                *)
(***************************************************************************)

\* the data-id values of the message elements the page shows
DomIds == {<<"m", "1">>, <<"m", "2">>, <<"m", "3">>}

\* the messages that can appear in the conversation panel
DomMessages ==
    [id : DomIds, text : Texts, sender : {UnknownCaller, Bob},
     chat : {ChatTitle}, is_outgoing : BOOLEAN, has_media : BOOLEAN,
     timestamp : {TimeStamp}]

\* the observer emits at most MaxEmit records
MaxEmit == 3

\* page.evaluate(...) installs the observer; the loop starts its first sleep
Inject ==
    /\ listener_pc = "start"
    /\ listener_pc' = "sleeping"
    /\ processedMessages' = {}
    /\ UNCHANGED <<contacts, message_history, chat_groups, active_chats, files,
                   pc, loc, calls, send_message_calls, config, last_cmd, emitted>>

\* the MutationObserver callback for an added message node
Observe(m) ==
    /\ listener_pc # "start"
    /\ Len(emitted) < MaxEmit
    /\ m.id \notin processedMessages
    /\ processedMessages' = processedMessages \cup {m.id}
    /\ emitted' = Append(emitted, m)
    /\ UNCHANGED <<contacts, message_history, chat_groups, active_chats, files,
                   pc, loc, calls, send_message_calls, config, last_cmd, listener_pc>>

\* the timer of asyncio.sleep(1) fires
TimerFires ==
    /\ listener_pc = "sleeping"
    /\ listener_pc' = "ready"
    /\ UNCHANGED <<contacts, message_history, chat_groups, active_chats, files,
                   pc, loc, calls, send_message_calls, config, last_cmd, processedMessages, emitted>>

\* the loop resumes and sleeps again: `while True: await asyncio.sleep(1)`
LoopAgain ==
    /\ listener_pc = "ready"
    /\ listener_pc' = "sleeping"
    /\ UNCHANGED <<contacts, message_history, chat_groups, active_chats, files,
                   pc, loc, calls, send_message_calls, config, last_cmd, processedMessages, emitted>>

(***************************************************************************)
(* get_contact_info called on its own, on sender strings that hold a name  *)
(* and a parenthesized international number: a country code, an optional   *)
(* separator, and a number written with or without separators.             *)
(***************************************************************************)

Alice == <<"A", "l", "i", "c", "e">>

CountryCodes == {<<"1">>, <<"9", "1">>}

Separators == {<<>>, <<" ">>, <<"-">>}

NumberBodies == {<<"5", "5", "5", "0", "1", "0", "0">>,
                 <<"5", "5", "5", "-", "0", "1", "0", "0">>,
                 <<"5", "5", "5", " ", "0", "1", "0", "0">>}

\* "Alice (+<cc><sep><body>)"
NumberedSender(cc, sep, body) ==
    Alice \o <<" ", "(", "+">> \o cc \o sep \o body \o <<")">>

NumberedSenders ==
    {NumberedSender(cc, sep, body) :
        cc \in CountryCodes, sep \in Separators, body \in NumberBodies}

\* get_contact_info is called at most MaxResolved times with a new sender
MaxResolved == 2

\* a call get_contact_info(sender)
Resolve(sender) ==
    /\ Len(contacts) < MaxResolved
    /\ contacts' = GetContactInfo(contacts, sender).contacts
    /\ UNCHANGED <<message_history, chat_groups, active_chats, files, pc, loc,
                   calls, send_message_calls, config, last_cmd, listener>>

(***************************************************************************)
(* The specifications.                                                     *)
(***************************************************************************)

\* the state __init__ leaves
Init ==
    /\ contacts = <<>>
    /\ message_history = <<>>
    /\ chat_groups = <<>>
    /\ active_chats = <<>>
    /\ files = {}
    /\ pc = [t \in Tasks |-> "idle"]
    /\ loc = [t \in Tasks |-> NoLocals]
    /\ calls = 0
    /\ send_message_calls = 0
    /\ max_message_length = DefaultMaxLength
    /\ last_cmd = NoCommand
    /\ listener_pc = "start"
    /\ processedMessages = {}
    /\ emitted = <<>>

\* the steps of one call of process_message
TaskStep(t) ==
    \/ \E obs \in Observations : Start(t, obs)
    \/ FetchOk(t)
    \/ \E how \in {"error", "non200", "partial"} : FetchFails(t, how)
    \/ SendFileOk(t)
    \/ SendFileFails(t)
    \/ \E ok \in BOOLEAN : SendMessage(t, ok)
    \/ Return(t)

\* process_message called for one observation after the other
Next == TaskStep(Consumer)

Spec == Init /\ [][Next]_vars

\* the same, with the bot commands dispatched at any point between the steps
InitBot ==
    /\ contacts = <<>>
    /\ message_history = <<>>
    /\ chat_groups = <<>>
    /\ active_chats = <<>>
    /\ files = {}
    /\ pc = [t \in Tasks |-> "idle"]
    /\ loc = [t \in Tasks |-> NoLocals]
    /\ calls = 0
    /\ send_message_calls = 0
    /\ max_message_length \in MaxLengths
    /\ last_cmd = NoCommand
    /\ listener_pc = "start"
    /\ processedMessages = {}
    /\ emitted = <<>>

\* the observations with a sender string and no media
TextObservations ==
    {o \in Observations : o.sender # NoneVal /\ ~o.has_media}

NextBot ==
    \/ \E obs \in TextObservations : Start(Consumer, obs)
    \/ \E ok \in BOOLEAN : SendMessage(Consumer, ok)
    \/ Return(Consumer)
    \/ ChatsCmd
    \/ \E q \in Queries : HistoryCmd(q)

SpecBot == InitBot /\ [][NextBot]_vars

\* every step of process_message, the media pipeline included, for received
\* messages of two senders (with a text, with a text and media, or empty),
\* with each of the bot commands dispatched at any point between the steps
CommandObservations ==
    {o \in Observations :
        /\ o.sender \in {AlParen, Bob}
        /\ ~o.is_outgoing
        /\ o.has_media => o.text # <<>>}

\* a bot command is dispatched and its handler runs
Command ==
    \/ StartCmd
    \/ HelpCmd
    \/ ChatsCmd
    \/ ContactsCmd
    \/ \E q \in Queries : SearchCmd(q)
    \/ \E q \in Queries : HistoryCmd(q)
    \/ \E connected \in BOOLEAN : StatsCmd(connected)

NextCommands ==
    \/ \E obs \in CommandObservations : Start(Consumer, obs)
    \/ FetchOk(Consumer)
    \/ \E how \in {"error", "non200", "partial"} : FetchFails(Consumer, how)
    \/ SendFileOk(Consumer)
    \/ SendFileFails(Consumer)
    \/ \E ok \in BOOLEAN : SendMessage(Consumer, ok)
    \/ Return(Consumer)
    \/ Command

SpecCommands == Init /\ [][NextCommands]_vars

\* the calls of process_message as concurrent tasks of the one event loop: a
\* step is the stretch of one call between two of its awaits, and the loop
\* runs the calls' steps in any order
ConcurrentObservations ==
    {o \in Observations : o.sender \in {AlParen, Bob} /\ ~o.is_outgoing}

NextConcurrent ==
    \E t \in Tasks :
        \/ \E obs \in ConcurrentObservations : Start(t, obs)
        \/ FetchOk(t)
        \/ \E how \in {"error", "non200", "partial"} : FetchFails(t, how)
        \/ SendFileOk(t)
        \/ SendFileFails(t)
        \/ \E ok \in BOOLEAN : SendMessage(t, ok)
        \/ Return(t)

SpecConcurrent == Init /\ [][NextConcurrent]_vars

\* /history with its chunking.  history_handler gets as far as the history
\* text only for a contact whose key in self.contacts, the raw sender string,
\* is also a key of self.message_history: a sender that reads as the
\* placeholder it is given.
SelfNamed == <<"u", "n", "k", "n", "o", "w", "n", "_", "1">>

HistoryObservations ==
    [id : MsgIds, sender : {SelfNamed}, text : Texts, chat : {ChatTitle},
     is_outgoing : BOOLEAN, has_media : {FALSE}, media_url : {NoneVal},
     timestamp : {TimeStamp}]

HistoryQueries == {<<"u", "n", "k">>, <<"_", "1">>, <<"B", "o", "b">>}

\* MAX_MESSAGE_LENGTH is configured with 1..MaxLength, or left at its default
MaxLength == 24

ChunkLengths == (1..MaxLength) \cup {DefaultMaxLength}

InitHistory ==
    /\ contacts = <<>>
    /\ message_history = <<>>
    /\ chat_groups = <<>>
    /\ active_chats = <<>>
    /\ files = {}
    /\ pc = [t \in Tasks |-> "idle"]
    /\ loc = [t \in Tasks |-> NoLocals]
    /\ calls = 0
    /\ send_message_calls = 0
    /\ max_message_length \in ChunkLengths
    /\ last_cmd = NoCommand
    /\ listener_pc = "start"
    /\ processedMessages = {}
    /\ emitted = <<>>

NextHistory ==
    \/ \E obs \in HistoryObservations : Start(Consumer, obs)
    \/ \E ok \in BOOLEAN : SendMessage(Consumer, ok)
    \/ Return(Consumer)
    \/ \E q \in HistoryQueries : HistoryCmd(q)

SpecHistory == InitHistory /\ [][NextHistory]_vars

\* get_contact_info alone
NextResolve == \E s \in NumberedSenders \cup Senders : Resolve(s)

SpecResolve == Init /\ [][NextResolve]_vars

\* the program as run() wires it: the listener and the page's observer
NextListen ==
    \/ Inject
    \/ \E m \in DomMessages : Observe(m)
    \/ TimerFires
    \/ LoopAgain

SpecListen ==
    /\ Init
    /\ [][NextListen]_vars
    /\ WF_vars(Inject) /\ WF_vars(TimerFires) /\ WF_vars(LoopAgain)

(***************************************************************************)
(* The properties.                                                         *)
(***************************************************************************)

\* call t of process_message starts in this step and resolves its sender
Resolves(t) == pc[t] = "idle" /\ pc'[t] \notin {"idle", "raised"}

\* the senders of the model with no phone number in them
PhoneLess == {UnknownCaller, Bob}

Unknown1 == <<"u", "n", "k", "n", "o", "w", "n", "_", "1">>

\* C1: identity stability of get_contact_info.  In every step the stored
\* contacts stay as they are, in place (none changed, merged or removed), no
\* sender string is stored twice, and a call that resolves a sender string
\* already stored gets the stored Contact and leaves the dict as it is.  When
\* "Unknown Caller" was the first sender ever resolved, every call with that
\* sender gets phone_number unknown_1.
C1_IdentityStable ==
    [][/\ Len(contacts') >= Len(contacts)
       /\ \A i \in 1..Len(contacts) : contacts'[i] = contacts[i]
       /\ \A i, j \in 1..Len(contacts') :
              contacts'[i].sender = contacts'[j].sender => i = j
       /\ \A t \in Tasks :
              Resolves(t) =>
                  /\ \E i \in 1..Len(contacts') :
                         /\ contacts'[i].sender = loc'[t].obs.sender
                         /\ contacts'[i].info = loc'[t].contact_info
                  /\ \A i \in 1..Len(contacts) :
                         contacts[i].sender = loc'[t].obs.sender =>
                             /\ contacts' = contacts
                             /\ loc'[t].contact_info = contacts[i].info
                  /\ (/\ contacts'[1].sender = UnknownCaller
                      /\ loc'[t].obs.sender = UnknownCaller)
                         => /\ loc'[t].contact_info.phone_number = Unknown1
                            /\ loc'[t].contact_info.id = Unknown1
      ]_vars

\* two messages of "Unknown Caller", the only contact, are in its history
C1_Witness ==
    /\ Len(contacts) = 1
    /\ contacts[1].sender = UnknownCaller
    /\ contacts[1].info.phone_number = Unknown1
    /\ Unknown1 \in DOMAIN message_history
    /\ Len(message_history[Unknown1]) = 2

\* the history list of a contact id, empty when the id has none
HistoryOf(history, id) == IF id \in DOMAIN history THEN history[id] ELSE <<>>

\* call t runs the text part for a non-empty text in this step
RecordsText(t) ==
    pc[t] \in {"idle", "fetch", "send_file"} /\ pc'[t] = "send_message"

\* call t passes the text part with an empty text in this step
SkipsText(t) ==
    pc[t] \in {"idle", "fetch", "send_file"} /\ pc'[t] = "done"

\* the MessageRecord of the observation of call t after the step
RecordOfCall(t) ==
    [id |-> loc'[t].obs.id, text |-> loc'[t].obs.text,
     direction |-> IF loc'[t].obs.is_outgoing THEN "outgoing" ELSE "incoming",
     timestamp |-> loc'[t].obs.timestamp, chat |-> loc'[t].obs.chat]

\* C3: the history is append-only and order-preserving.  In every step no
\* contact id loses its history, and each history list either stays as it is
\* or gets one record at its end; a list changes exactly when a call passes
\* its text part with a non-empty text, and then the list of that call's
\* contact id gets the record of that call's observation at its end and no
\* other list changes; a call with an empty text changes no list.
C3_HistoryAppendOnly ==
    [][/\ DOMAIN message_history \subseteq DOMAIN message_history'
       /\ \A id \in DOMAIN message_history' :
              \/ /\ id \in DOMAIN message_history
                 /\ message_history'[id] = message_history[id]
              \/ \E t \in Tasks :
                     /\ RecordsText(t)
                     /\ loc'[t].contact_info.id = id
       /\ \A t \in Tasks :
              /\ RecordsText(t) =>
                     /\ loc'[t].obs.text # <<>>
                     /\ loc'[t].contact_info.id \in DOMAIN message_history'
                     /\ message_history'[loc'[t].contact_info.id] =
                            Append(HistoryOf(message_history, loc'[t].contact_info.id),
                                   RecordOfCall(t))
              /\ SkipsText(t) =>
                     /\ loc'[t].obs.text = <<>>
                     /\ message_history' = message_history
      ]_vars

\* a contact whose history holds a received message, then a sent one
C3_Witness ==
    \E id \in DOMAIN message_history :
        /\ Len(message_history[id]) = 2
        /\ message_history[id][1].direction = "incoming"
        /\ message_history[id][2].direction = "outgoing"

\* the ids of a list, as a set
Ids(list) == {list[i] : i \in 1..Len(list)}

\* C9: the active-chat list holds no contact id twice and an id keeps the
\* place of its first appearance.  In every step the list stays as it is or
\* gets, at its end, the one id that gets its first history record in that
\* step; after the step no id is in it twice, and its ids are exactly the ids
\* that have a history.
C9_ActiveChatsFirstAppearance ==
    [][/\ \A i, j \in 1..Len(active_chats') :
              active_chats'[i] = active_chats'[j] => i = j
       /\ Ids(active_chats') = DOMAIN message_history'
       /\ \/ /\ active_chats' = active_chats
             /\ DOMAIN message_history' = DOMAIN message_history
          \/ \E id \in (DOMAIN message_history') \ (DOMAIN message_history) :
                 /\ id \notin Ids(active_chats)
                 /\ active_chats' = Append(active_chats, id)
      ]_vars

\* the first active contact sends again, after a second contact has appeared
C9_Witness ==
    /\ Len(active_chats) = 2
    /\ calls = 3
    /\ pc[Consumer] = "send_message"
    /\ loc[Consumer].contact_info.id = active_chats[1]
    /\ Len(message_history[active_chats[1]]) = 2
    /\ Len(message_history[active_chats[2]]) = 1

\* "unknown_<n>"
UnknownId(n) == <<"u", "n", "k", "n", "o", "w", "n", "_">> \o DecStr(n)

\* C8, as stated: the k-th distinct sender with no phone number gets
\* unknown_k, whatever was resolved between them.
C8_KthPhoneLessGetsK ==
    \A i \in 1..Len(contacts) :
        contacts[i].sender \in PhoneLess =>
            contacts[i].info.id =
                UnknownId(Cardinality({j \in 1..i : contacts[j].sender \in PhoneLess}))

\* C8, amended: a sender with no phone number that is the n-th contact
\* created, senders with a phone number counted, gets phone_number and id
\* unknown_n; so the placeholder numbers strictly increase in the order of
\* first appearance, and skip the places of the contacts with a phone number.
C8_PlaceholderIsPosition ==
    \A i \in 1..Len(contacts) :
        contacts[i].sender \in PhoneLess =>
            /\ contacts[i].info.id = UnknownId(i)
            /\ contacts[i].info.phone_number = UnknownId(i)

\* a sender with a phone number was resolved between two without one
C8_Witness ==
    /\ Len(contacts) = 3
    /\ contacts[1].sender \in PhoneLess
    /\ contacts[2].sender \notin PhoneLess
    /\ contacts[3].sender \in PhoneLess
    /\ contacts[3].info.id = UnknownId(3)

\* the media pipeline of call t ends in this step with a failure
MediaFails(t) ==
    /\ pc[t] \in {"fetch", "send_file"}
    /\ pc'[t] \notin {"fetch", "send_file"}
    /\ loc'[t].media \in {"error", "non200", "partial", "send_failed"}

\* C10: a media failure is contained and the text is handled on its own.
\* No call for an observation with a sender string raises.  In the step in
\* which the fetch or send_file of a call fails, the call goes on: with a
\* non-empty text it appends the record of its observation to the history of
\* its contact, has the contact's id in the active chats and stands at
\* send_message with the formatted text of that observation; with an empty
\* text it is done and the history and the active chats are unchanged.
C10_MediaFailureContained ==
    [][\A t \in Tasks :
          /\ pc'[t] = "raised" => loc'[t].obs.sender = NoneVal
          /\ MediaFails(t) =>
                 IF loc[t].obs.text # <<>>
                 THEN /\ pc'[t] = "send_message"
                      /\ loc[t].contact_info.id \in DOMAIN message_history'
                      /\ message_history'[loc[t].contact_info.id] =
                             Append(HistoryOf(message_history, loc[t].contact_info.id),
                                    RecordOfCall(t))
                      /\ loc[t].contact_info.id \in Ids(active_chats')
                      /\ loc'[t].obs = loc[t].obs
                      /\ Contains(loc[t].obs.text, loc'[t].formatted_msg)
                 ELSE /\ pc'[t] = "done"
                      /\ message_history' = message_history
                      /\ active_chats' = active_chats
      ]_vars

\* a call whose fetch got a status other than 200 stands at send_message
C10_Witness ==
    /\ pc[Consumer] = "send_message"
    /\ loc[Consumer].media = "non200"
    /\ loc[Consumer].obs.has_media

\* C2: every record the observer emits is eventually passed to
\* process_message: once i records were emitted, process_message is called
\* an i-th time.
C2_EveryObservationProcessed ==
    \A i \in 1..MaxEmit : (Len(emitted) >= i) ~> (calls >= i)

\* the first contact, in the order of the dict, whose display name holds the
\* query without regard to case, or whose phone number holds it (0: none)
BestMatch(query) ==
    LET hits == {i \in 1..Len(contacts) :
                    \/ Contains(ToLower(query), ToLower(contacts[i].info.display_name))
                    \/ Contains(query, contacts[i].info.phone_number)}
    IN  IF hits = {} THEN 0 ELSE CHOOSE i \in hits : \A j \in hits : i <= j

\* C4: /history <query> replies with the last 10 messages of the first
\* matching contact.  When the first contact that matches the query has a
\* recorded message, the handler replies, and its segments together are the
\* history text of the last (at most) 10 records of that contact's id, in
\* history order.
C4_HistoryRepliesMessages ==
    [][(/\ last_cmd' # last_cmd
        /\ last_cmd'.cmd = "history"
        /\ BestMatch(last_cmd'.arg) # 0
        /\ contacts[BestMatch(last_cmd'.arg)].info.id \in DOMAIN message_history)
           => /\ last_cmd'.status = "replied"
              /\ Join(last_cmd'.replies) =
                     HistoryText(contacts[BestMatch(last_cmd'.arg)].info.display_name,
                                 LastN(message_history[contacts[BestMatch(last_cmd'.arg)].info.id],
                                       ShownCount))
      ]_vars

\* the Contact that owns a contact id: the first stored one with that id
Owner(id) ==
    contacts[CHOOSE i \in 1..Len(contacts) :
                 /\ contacts[i].info.id = id
                 /\ \A j \in 1..(i - 1) : contacts[j].info.id # id].info

\* C5: /chats lists the last 10 active contacts.  When the active-chat list
\* is not empty, the handler replies with one text: the head line and, in
\* list order, one numbered line for each of the last (at most) 10 ids of the
\* list, with the display name and the phone number of the Contact that owns
\* the id.
C5_ChatsListsActive ==
    [][(/\ last_cmd' # last_cmd
        /\ last_cmd'.cmd = "chats"
        /\ active_chats # <<>>)
           => /\ last_cmd'.status = "replied"
              /\ last_cmd'.replies =
                     << <<"R", "e", "c", "e", "n", "t", " ", "C", "h", "a", "t", "s", ":", "\n">>
                         \o Join([i \in 1..Len(LastN(active_chats, ShownCount)) |->
                                     ListLine(i, Owner(LastN(active_chats, ShownCount)[i]))]) >>
      ]_vars

\* C6: the transient file is deleted whether send_file succeeded or failed.
\* In the step in which send_file of a call returns or raises, the file the
\* fetch of that call created no longer exists.
C6_TransientFileDeleted ==
    [][\A t \in Tasks :
          (pc[t] = "send_file" /\ pc'[t] # "send_file")
              => loc[t].temp_filename \notin files'
      ]_vars

\* the digits of a number written with separators
DigitsOf(body) == SelectSeq(body, IsDigit)

\* C7: phone extraction.  The Contact created for "Alice (+<cc><sep><body>)"
\* has as phone_number and id the country code followed by the digits of the
\* body, and "Alice" as display_name.
C7_PhoneExtracted ==
    \A i \in 1..Len(contacts) :
        \A cc \in CountryCodes, sep \in Separators, body \in NumberBodies :
            contacts[i].sender = NumberedSender(cc, sep, body) =>
                /\ contacts[i].info.phone_number = cc \o DigitsOf(body)
                /\ contacts[i].info.id = cc \o DigitsOf(body)
                /\ contacts[i].info.display_name = Alice

\* the await on send_message of call t ends in this step
SendEnds(t) == pc[t] = "send_message" /\ pc'[t] # "send_message"

\* what the calls of process_message share
shared == <<contacts, message_history, chat_groups, active_chats, files>>

\* the last element of a non-empty list
Last(list) == list[Len(list)]

\* C11: no rollback and no retry when send_message fails.  In the step that
\* ends the await on send_message, with success or with failure, the call is
\* done (it has not raised and does not stand at send_message again),
\* send_message is not called again, and contacts, history, chat groups,
\* active chats and files stay as they are: so the state after a failure is
\* the state after a success.  The record of the call's observation is the
\* last of the history of its contact and the contact's id is an active
\* chat.  The step after it gives the result back to the caller.
C11_NoRollbackOnSendFailure ==
    [][\A t \in Tasks :
          /\ SendEnds(t) =>
                 /\ loc'[t].send \in {"ok", "failed"}
                 /\ pc'[t] = "done"
                 /\ send_message_calls' = send_message_calls
                 /\ shared' = shared
                 /\ loc[t].obs.text # <<>>
                 /\ loc[t].contact_info.id \in DOMAIN message_history'
                 /\ Last(message_history'[loc[t].contact_info.id]) = MessageRecord(loc[t].obs)
                 /\ loc[t].contact_info.id \in Ids(active_chats')
          /\ (pc[t] = "done" /\ pc'[t] # "done") =>
                 /\ pc'[t] = "idle"
                 /\ shared' = shared
                 /\ send_message_calls' = send_message_calls
      ]_vars

\* a call whose send_message failed is done, its record in the history
C11_Witness ==
    /\ pc[Consumer] = "done"
    /\ loc[Consumer].send = "failed"
    /\ loc[Consumer].contact_info.id \in DOMAIN message_history
    /\ Last(message_history[loc[Consumer].contact_info.id]) = MessageRecord(loc[Consumer].obs)
    /\ send_message_calls = 1

\* C12: process_message never raises to its caller.  Whatever the fields of
\* the observation (a sender that is None among them) and whatever the
\* outcomes of the fetch, send_file and send_message, no call ends with an
\* exception.
C12_ProcessNeverRaises ==
    \A t \in Tasks : pc[t] # "raised"

\* C13: the chunking of /history.  When history_handler finds the history of
\* its target, it replies; every segment it sends has at least 1 and at most
\* max_message_length characters, and the segments in send order, put
\* together, are the history text of the target's last (at most) 10 records.
C13_ChunkingExact ==
    [][(/\ last_cmd' # last_cmd
        /\ last_cmd'.cmd = "history"
        /\ HistoryTarget(contacts, last_cmd'.arg) # 0
        /\ contacts[HistoryTarget(contacts, last_cmd'.arg)].sender \in DOMAIN message_history)
           => /\ last_cmd'.status = "replied"
              /\ \A i \in 1..Len(last_cmd'.replies) :
                     /\ Len(last_cmd'.replies[i]) >= 1
                     /\ Len(last_cmd'.replies[i]) <= max_message_length
              /\ Join(last_cmd'.replies) =
                     HistoryText(contacts[HistoryTarget(contacts, last_cmd'.arg)].info.display_name,
                                 LastN(message_history[contacts[HistoryTarget(contacts, last_cmd'.arg)].sender],
                                       ShownCount))
      ]_vars

\* /history sent a text of two records in segments, the last one shorter
\* than the maximum
C13_Witness ==
    /\ last_cmd.cmd = "history"
    /\ last_cmd.status = "replied"
    /\ Len(last_cmd.replies) >= 3
    /\ Len(Last(last_cmd.replies)) < max_message_length
    /\ Len(last_cmd.replies[1]) = max_message_length
    /\ SelfNamed \in DOMAIN message_history
    /\ Join(last_cmd.replies) =
           HistoryText(SelfNamed, message_history[SelfNamed])
    /\ Len(message_history[SelfNamed]) = 2

\* the number of places of a list that hold v
Occurrences(list, v) == Cardinality({i \in 1..Len(list) : list[i] = v})

\* C14: no deduplication on the observation id.  When a call runs its text
\* part for an observation whose sender is stored already and whose record
\* (same id, text, direction, timestamp, chat) is already in the history of
\* its contact, the record is appended once more and send_message is called
\* once more, while the contacts and the active chats stay as they are.  At
\* all times send_message was called once for every record of the history.
C14_NoDeduplication ==
    [][/\ \A t \in Tasks :
              (/\ RecordsText(t)
               /\ KeyIndex(contacts, loc'[t].obs.sender) # 0
               /\ Occurrences(HistoryOf(message_history, loc'[t].contact_info.id),
                              RecordOfCall(t)) >= 1)
                  => /\ message_history'[loc'[t].contact_info.id] =
                            Append(message_history[loc'[t].contact_info.id], RecordOfCall(t))
                     /\ Occurrences(message_history'[loc'[t].contact_info.id], RecordOfCall(t)) =
                            Occurrences(message_history[loc'[t].contact_info.id], RecordOfCall(t)) + 1
                     /\ send_message_calls' = send_message_calls + 1
                     /\ active_chats' = active_chats
                     /\ contacts' = contacts
       /\ send_message_calls' = RecordCount(message_history')
      ]_vars

\* the same observation was processed twice: one contact, one active chat,
\* two equal records, two calls of send_message
C14_Witness ==
    /\ calls = 2
    /\ Len(contacts) = 1
    /\ Len(active_chats) = 1
    /\ send_message_calls = 2
    /\ Len(message_history[active_chats[1]]) = 2
    /\ message_history[active_chats[1]][1] = message_history[active_chats[1]][2]
    /\ message_history[active_chats[1]][1].id = <<"m", "1">>

\* the three structures process_message keeps
structures == <<contacts, message_history, active_chats>>

\* C15: the bot-command handlers only read.  A step in which a handler
\* (/start, /help, /chats, /contacts, /search, /history, /stats) replies or
\* raises leaves contacts, history, active chats and chat groups as they
\* are, wherever the calls of process_message stand; and a step that
\* changes one of the three structures is a step of a call of
\* process_message, and no handler's.
C15_HandlersReadOnly ==
    [][/\ last_cmd' # last_cmd =>
              /\ structures' = structures
              /\ chat_groups' = chat_groups
              /\ pc' = pc
       /\ structures' # structures =>
              /\ last_cmd' = last_cmd
              /\ \E t \in Tasks :
                     /\ pc[t] \in {"idle", "fetch", "send_file"}
                     /\ pc'[t] # pc[t]
      ]_vars

\* /stats replied while the second call, which created the second contact,
\* waits for its fetch
C15_Witness ==
    /\ calls = 2
    /\ pc[Consumer] = "fetch"
    /\ Len(contacts) = 2
    /\ contacts[2].sender = loc[Consumer].obs.sender
    /\ Len(active_chats) = 1
    /\ last_cmd.cmd = "stats"
    /\ last_cmd.replies =
           StatsHandler(active_chats, contacts, message_history, TRUE).replies

\* the Contact stored for a sender string that is a key of the dict
StoredFor(sender) == contacts[KeyIndex(contacts, sender)].info

\* C16: the text passed to send_message holds all five fields.  A call that
\* stands at send_message has a non-empty text, and its formatted text
\* holds the glyph of its direction and not the other one, the display name
\* and the phone number of the Contact stored for its sender, the chat
\* title, the text and the timestamp of its observation.
C16_MessageHoldsAllFields ==
    \A t \in Tasks :
        pc[t] = "send_message" =>
            /\ loc[t].obs.text # <<>>
            /\ KeyIndex(contacts, loc[t].obs.sender) # 0
            /\ loc[t].contact_info = StoredFor(loc[t].obs.sender)
            /\ Contains(<<GlyphSent>>, loc[t].formatted_msg) <=> loc[t].obs.is_outgoing
            /\ Contains(<<GlyphReceived>>, loc[t].formatted_msg) <=> ~loc[t].obs.is_outgoing
            /\ Contains(StoredFor(loc[t].obs.sender).display_name, loc[t].formatted_msg)
            /\ Contains(StoredFor(loc[t].obs.sender).phone_number, loc[t].formatted_msg)
            /\ Contains(loc[t].obs.chat, loc[t].formatted_msg)
            /\ Contains(loc[t].obs.text, loc[t].formatted_msg)
            /\ Contains(loc[t].obs.timestamp, loc[t].formatted_msg)

\* a sent message of "Al (+1 5550100)" with media stands at send_message
C16_Witness ==
    /\ pc[Consumer] = "send_message"
    /\ loc[Consumer].obs.is_outgoing
    /\ loc[Consumer].obs.sender = AlParen
    /\ loc[Consumer].media = "sent"
    /\ loc[Consumer].contact_info.display_name = <<"A", "l">>
    /\ loc[Consumer].contact_info.phone_number = <<"1", "5", "5", "5", "0", "1", "0", "0">>
    /\ Contains(<<GlyphSent>>, loc[Consumer].formatted_msg)

\* call t is between its start and its return
InFlight(t) == pc[t] \in {"fetch", "send_file", "send_message", "done"}

\* C17: no double minting when calls of process_message interleave at their
\* awaits.  No sender string is stored twice, and every call in flight holds
\* the one Contact stored for its sender; so two calls in flight with the
\* same sender hold the same Contact.
C17_NoDoubleMinting ==
    /\ \A i, j \in 1..Len(contacts) :
           contacts[i].sender = contacts[j].sender => i = j
    /\ \A t \in Tasks :
           InFlight(t) =>
               /\ KeyIndex(contacts, loc[t].obs.sender) # 0
               /\ loc[t].contact_info = StoredFor(loc[t].obs.sender)
    /\ \A t, u \in Tasks :
           (InFlight(t) /\ InFlight(u) /\ loc[t].obs.sender = loc[u].obs.sender)
               => loc[t].contact_info = loc[u].contact_info

\* the first two calls ever, both for "Bob", both waiting for their fetch
C17_Witness ==
    /\ calls = 2
    /\ \A t \in Tasks : pc[t] = "fetch" /\ loc[t].obs.sender = Bob
    /\ Len(contacts) = 1
    /\ contacts[1].sender = Bob

\* C18: placeholder ids are unique within a run.  A call that stores a new
\* Contact for a sender with no phone number gives it, as phone_number and
\* as id, unknown_<n> with n the number of contacts stored before the call
\* plus 1, an id no stored Contact has; and after every step a Contact of a
\* sender with no phone number shares its id with no Contact stored under
\* another sender string.
C18_PlaceholderIdsUnique ==
    [][/\ \A t \in Tasks :
              (/\ Resolves(t)
               /\ Len(contacts') = Len(contacts) + 1
               /\ loc'[t].obs.sender \in PhoneLess)
                  => /\ loc'[t].contact_info.phone_number = UnknownId(Len(contacts) + 1)
                     /\ loc'[t].contact_info.id = UnknownId(Len(contacts) + 1)
                     /\ contacts'[Len(contacts')].info = loc'[t].contact_info
                     /\ \A i \in 1..Len(contacts) :
                            contacts[i].info.id # loc'[t].contact_info.id
       /\ \A i, j \in 1..Len(contacts') :
              (contacts'[i].sender \in PhoneLess /\ i # j)
                  => contacts'[i].info.id # contacts'[j].info.id
      ]_vars

\* both senders with no phone number are stored, and nothing else
C18_Witness ==
    /\ Len(contacts) = 2
    /\ {contacts[1].sender, contacts[2].sender} = PhoneLess
    /\ contacts[1].info.id = UnknownId(1)
    /\ contacts[2].info.id = UnknownId(2)

\* the observation of the call t that takes a step
ObsOfStep(t) == IF pc[t] = "idle" THEN loc'[t].obs ELSE loc[t].obs

\* C19: an observation with an empty text changes no message state.  Every
\* step of a call for such an observation, with or without media, leaves
\* the history, the chat groups and the active chats as they are, calls
\* send_message not at all and never stands at send_message; the contacts
\* stay as they are, except that the first step stores the Contact of a
\* sender not stored before.
C19_EmptyTextChangesNothing ==
    [][\A t \in Tasks :
          (/\ pc'[t] # pc[t]
           /\ ObsOfStep(t).text = <<>>
           /\ ObsOfStep(t).sender # NoneVal)
              => /\ message_history' = message_history
                 /\ chat_groups' = chat_groups
                 /\ active_chats' = active_chats
                 /\ send_message_calls' = send_message_calls
                 /\ pc'[t] # "send_message"
                 /\ \/ contacts' = contacts
                    \/ /\ pc[t] = "idle"
                       /\ KeyIndex(contacts, ObsOfStep(t).sender) = 0
                       /\ contacts' = Append(contacts,
                               [sender |-> ObsOfStep(t).sender,
                                info |-> loc'[t].contact_info])
      ]_vars

\* the only call so far, media with no text, has sent its file: its sender
\* is a contact, and there is no history and no active chat
C19_Witness ==
    /\ calls = 1
    /\ pc[Consumer] = "done"
    /\ loc[Consumer].obs.text = <<>>
    /\ loc[Consumer].media = "sent"
    /\ Len(contacts) = 1
    /\ active_chats = <<>>
    /\ message_history = <<>>
    /\ send_message_calls = 0

\* C20: at every point where another task can run (before and after a call
\* of process_message and at each of its awaits) the ids of the active
\* chats are the keys of the history, every history list holds a record,
\* and every such id is the id of a stored Contact.
C20_ActiveChatsAreHistoryKeys ==
    /\ Ids(active_chats) = DOMAIN message_history
    /\ \A id \in DOMAIN message_history :
           /\ Len(message_history[id]) >= 1
           /\ \E i \in 1..Len(contacts) : contacts[i].info.id = id

\* two calls wait for send_message, each for the first message of its
\* contact
C20_Witness ==
    /\ \A t \in Tasks : pc[t] = "send_message"
    /\ calls = 2
    /\ Len(active_chats) = 2
    /\ \A t \in Tasks : Len(message_history[loc[t].contact_info.id]) = 1

\* C21: contact ids identify contacts one-to-one.  No two Contacts stored
\* under different sender strings have the same id.
C21_IdsOneToOne ==
    \A i, j \in 1..Len(contacts) :
        contacts[i].info.id = contacts[j].info.id => i = j

====
